---- MODULE Spec2Model ----
(***************************************************************************)
(* Factur-X invoice generator: the Flask handler generate_invoice          *)
(* (src/app.py) and FacturXGenerator (src/facturx_generator.py).           *)
(*                                                                         *)
(* Text values are sequences of one-character strings, so that the regular *)
(* expressions, str.replace, slicing and int() of the source can be        *)
(* computed character by character.  Python floats are modelled as exact   *)
(* decimal fixed-point values plus the not-a-number value; see Num below.  *)
(***************************************************************************)
EXTENDS Integers, Sequences, FiniteSets, TLC

(***************************************************************************)
(* Characters.                                                             *)
(***************************************************************************)
AsciiDigits == <<"0", "1", "2", "3", "4", "5", "6", "7", "8", "9">>

\* U+0660 ARABIC-INDIC DIGIT ZERO and U+0663 ARABIC-INDIC DIGIT THREE: decimal
\* digits of Unicode that are not ASCII.
ArabicZero == "U+0660"
ArabicThree == "U+0663"

IsAsciiDigit(c) == \E k \in 1..10 : AsciiDigits[k] = c

\* Python 3 `\d` on str patterns: any Unicode decimal digit.
IsReDigit(c) == IsAsciiDigit(c) \/ c \in {ArabicZero, ArabicThree}

\* Python 3 `\s` on str patterns.
IsReSpace(c) == c \in {" ", "\t"}

\* int(c) of one decimal digit.
DigitValue(c) ==
    IF c = ArabicZero THEN 0
    ELSE IF c = ArabicThree THEN 3
    ELSE (CHOOSE k \in 1..10 : AsciiDigits[k] = c) - 1

\* Python's None (dict.get on a missing key).
None == <<"None">>

\* `not x` for a text value or None.
Falsy(x) == x = None \/ x = <<>>

RECURSIVE Pow10(_)
Pow10(n) == IF n = 0 THEN 1 ELSE 10 * Pow10(n - 1)

(***************************************************************************)
(* FacturXGenerator._validate_siret                                        *)
(***************************************************************************)
\* re.sub(r'[\s-]', '', siret)
StripSpaceHyphen(s) == SelectSeq(s, LAMBDA c : ~(IsReSpace(c) \/ c = "-"))

\* re.match(r'^\d{14}$', siret) on a text without line breaks.
SiretLen == 14
MatchesFourteenDigits(s) ==
    Len(s) = SiretLen /\ \A i \in 1..Len(s) : IsReDigit(s[i])

\* One step of the checksum loop; i is the zero-based position.
LuhnTerm(i, c) ==
    LET n == DigitValue(c) IN
    IF i % 2 = 1
    THEN (IF 2 * n > 9 THEN ((2 * n) \div 10) + ((2 * n) % 10) ELSE 2 * n)
    ELSE n

RECURSIVE LuhnTotal(_, _)
LuhnTotal(s, k) ==
    IF k = 0 THEN 0 ELSE LuhnTotal(s, k - 1) + LuhnTerm(k - 1, s[k])

ValidateSiret(siret) ==
    LET s == StripSpaceHyphen(siret) IN
    IF ~MatchesFourteenDigits(s) THEN FALSE
    ELSE LuhnTotal(s, Len(s)) % 10 = 0

(***************************************************************************)
(* Python floats.  A float is [k |-> "num", v |-> n], the decimal value    *)
(* n / Scale held exactly, or [k |-> "nan", v |-> 0].  A value float()     *)
(* rejects (ValueError) is [k |-> "bad", v |-> 0].  Binary rounding of the *)
(* doubles is not modelled: sums and products are the exact decimal ones.  *)
(***************************************************************************)
\* Decimals of f"{x:.2f}".
Decimals2 == 2

\* Decimals held by the fixed-point representation of a float: a product of
\* two two-decimal values is exact.
FracDigits == Decimals2 + Decimals2
Scale == Pow10(FracDigits)

F(n) == [k |-> "num", v |-> n]
NaN == [k |-> "nan", v |-> 0]
Bad == [k |-> "bad", v |-> 0]

IsNum(x) == x.k = "num"

\* a + b
FAdd(a, b) == IF IsNum(a) /\ IsNum(b) THEN F(a.v + b.v) ELSE NaN

\* a * b; the split keeps the intermediate products small.  Exact whenever
\* the decimal product has at most four decimals.
FMul(a, b) ==
    IF IsNum(a) /\ IsNum(b)
    THEN F(a.v * (b.v \div Scale) + (a.v * (b.v % Scale)) \div Scale)
    ELSE NaN

\* a / 100
Hundred == 100
FDiv100(a) == IF IsNum(a) THEN F(a.v \div Hundred) ELSE NaN

\* Comparisons: every comparison with nan is False.
FLt(a, n) == IsNum(a) /\ a.v < n * Scale
FLe(a, n) == IsNum(a) /\ a.v <= n * Scale
FGt(a, n) == IsNum(a) /\ a.v > n * Scale

\* sum(...) over a sequence of floats, starting from the int 0.
RECURSIVE FSum(_, _)
FSum(s, k) == IF k = 0 THEN F(0) ELSE FAdd(FSum(s, k - 1), s[k])

\* Value of a run of decimal digits.
RECURSIVE DigitsValue(_, _)
DigitsValue(s, k) ==
    IF k = 0 THEN 0 ELSE 10 * DigitsValue(s, k - 1) + DigitValue(s[k])

AllAsciiDigits(s) == \A i \in 1..Len(s) : IsAsciiDigit(s[i])

\* Position of the first "." of s, or 0.
DotAt(s) ==
    IF \E i \in 1..Len(s) : s[i] = "."
    THEN CHOOSE i \in 1..Len(s) : s[i] = "." /\ \A j \in 1..(i - 1) : s[j] # "."
    ELSE 0

\* float(text) for an unsigned decimal literal "ddd" or "ddd.ddd".
ParseUnsigned(s) ==
    LET d == DotAt(s)
        ip == IF d = 0 THEN s ELSE SubSeq(s, 1, d - 1)
        fp == IF d = 0 THEN <<>> ELSE SubSeq(s, d + 1, Len(s))
    IN  IF Len(ip) + Len(fp) = 0 \/ ~AllAsciiDigits(ip) \/ ~AllAsciiDigits(fp)
           \/ Len(fp) > FracDigits
        THEN Bad
        ELSE F(DigitsValue(ip, Len(ip)) * Scale
               + DigitsValue(fp, Len(fp)) * Pow10(FracDigits - Len(fp)))

\* float(text): "nan", an optionally signed decimal literal, or ValueError.
ParseFloat(s) ==
    IF s = <<"n", "a", "n">> THEN NaN
    ELSE IF Len(s) > 0 /\ s[1] = "-"
    THEN (LET u == ParseUnsigned(Tail(s)) IN IF IsNum(u) THEN F(0 - u.v) ELSE Bad)
    ELSE ParseUnsigned(s)

\* f"{x:.2f}": the value rounded to two decimals, held in hundredths; "nan"
\* for nan.  A decimal tie is resolved to even.
CentUnit == Pow10(FracDigits - Decimals2)
RoundCents(v) ==
    LET q == v \div CentUnit
        r == v % CentUnit
    IN  IF 2 * r < CentUnit THEN q
        ELSE IF 2 * r > CentUnit THEN q + 1
        ELSE IF q % 2 = 0 THEN q ELSE q + 1

Fmt2(x) ==
    IF ~IsNum(x) THEN NaN
    ELSE IF x.v >= 0 THEN F(RoundCents(x.v)) ELSE F(0 - RoundCents(0 - x.v))

(***************************************************************************)
(* datetime.strptime(text, '%Y-%m-%d'): four digits, one or two digits,    *)
(* one or two digits, separated by "-", naming a day of the calendar.      *)
(***************************************************************************)
\* The part of s before its first "-", and what follows that "-".
DashAt(s) ==
    IF \E i \in 1..Len(s) : s[i] = "-"
    THEN CHOOSE i \in 1..Len(s) : s[i] = "-" /\ \A j \in 1..(i - 1) : s[j] # "-"
    ELSE 0

IsLeap(y) == (y % 4 = 0 /\ y % 100 # 0) \/ y % 400 = 0

DaysIn(y, m) ==
    IF m = 2 THEN (IF IsLeap(y) THEN 29 ELSE 28)
    ELSE IF m \in {4, 6, 9, 11} THEN 30 ELSE 31

YearDigits == 4
StrptimeOk(s) ==
    LET d1 == DashAt(s)
        ys == SubSeq(s, 1, d1 - 1)
        r1 == SubSeq(s, d1 + 1, Len(s))
        d2 == DashAt(r1)
        ms == SubSeq(r1, 1, d2 - 1)
        ds == SubSeq(r1, d2 + 1, Len(r1))
    IN  /\ d1 > 0
        /\ d2 > 0
        /\ Len(ys) = YearDigits /\ AllAsciiDigits(ys)
        /\ Len(ms) \in {1, 2} /\ AllAsciiDigits(ms)
        /\ Len(ds) \in {1, 2} /\ AllAsciiDigits(ds)
        /\ DigitsValue(ys, Len(ys)) >= 1
        /\ DigitsValue(ms, Len(ms)) \in 1..12
        /\ DigitsValue(ds, Len(ds)) \in
               1..DaysIn(DigitsValue(ys, Len(ys)), DigitsValue(ms, Len(ms)))

(***************************************************************************)
(* FacturXGenerator.validate_invoice_data.  A message is                   *)
(* [item |-> i, text |-> t, ...]: "Article i - t" for i > 0, else t.       *)
(***************************************************************************)
Msg(t) == [item |-> 0, text |-> t, field |-> "", party |-> ""]
ItemMsg(i, t) == [item |-> i, text |-> t, field |-> "", party |-> ""]
\* f"{label} - {field} est obligatoire", f"{label} - Format SIRET invalide"
PartyMsg(label, t, field) == [item |-> 0, text |-> t, field |-> field, party |-> label]

\* errors.append(m) under a condition.
When(c, m) == IF c THEN <<m>> ELSE <<>>

MsgDateRequired == Msg("Date de facturation est obligatoire")
MsgNumberRequired == Msg("Numero de facture est obligatoire")
MsgDateFormat == Msg("Format de date invalide (YYYY-MM-DD attendu)")
MsgNoItem == Msg("Au moins un article est obligatoire")
MsgTotalPositive == Msg("Le montant total doit etre superieur a 0")
MsgTotalInvalid == Msg("Montant total invalide")

RequiredParty == <<"name", "address", "postal_code", "city">>

\* Fail-fast variant: the loop stops at the first missing field.
RequiredFieldErrorsFailFast(data) ==
    IF Falsy(data.date) THEN <<MsgDateRequired>>
    ELSE When(Falsy(data.invoice_number), MsgNumberRequired)

\* for field, label in required_fields.items(): ...
RequiredFieldErrors(data) ==
    When(Falsy(data.date), MsgDateRequired)
    \o When(Falsy(data.invoice_number), MsgNumberRequired)

\* if data.get('date'): try strptime ...
DateFormatErrors(data) ==
    When(~Falsy(data.date) /\ ~StrptimeOk(data.date), MsgDateFormat)

RECURSIVE PartyErrors(_, _, _)
PartyErrors(party, label, k) ==
    IF k = 0 THEN <<>>
    ELSE PartyErrors(party, label, k - 1)
         \o When(Falsy(party[RequiredParty[k]]),
                 PartyMsg(label, "est obligatoire", RequiredParty[k]))

\* if siret and not self._validate_siret(siret)
SiretErrors(party, label) ==
    When(~Falsy(party.siret) /\ ~ValidateSiret(party.siret),
         PartyMsg(label, "Format SIRET invalide", "siret"))

\* The body of the loop over the items; i is the 1-based article number.
ItemErrors(item, i) ==
    When(Falsy(item.description), ItemMsg(i, "Description obligatoire"))
    \o When(item.quantity.k = "bad", ItemMsg(i, "Quantite invalide"))
    \o When(FLe(item.quantity, 0), ItemMsg(i, "Quantite doit etre superieure a 0"))
    \o When(item.unit_price.k = "bad" \/ FLt(item.unit_price, 0),
            ItemMsg(i, "Prix unitaire invalide"))
    \o When(item.vat_rate.k = "bad", ItemMsg(i, "Taux de TVA invalide"))
    \o When(FLt(item.vat_rate, 0) \/ FGt(item.vat_rate, 100),
            ItemMsg(i, "Taux de TVA invalide (0-100%)"))

RECURSIVE ItemsLoop(_, _)
ItemsLoop(items, k) ==
    IF k = 0 THEN <<>> ELSE ItemsLoop(items, k - 1) \o ItemErrors(items[k], k)

ItemsErrors(data) ==
    IF Len(data.items) = 0 THEN <<MsgNoItem>>
    ELSE ItemsLoop(data.items, Len(data.items))

TotalErrors(data) ==
    When(data.total_ttc.k = "bad", MsgTotalInvalid)
    \o When(FLe(data.total_ttc, 0), MsgTotalPositive)

\* The list `errors` when the function reaches `if errors:`.
ValidationErrors(data) ==
    RequiredFieldErrors(data)
    \o DateFormatErrors(data)
    \o PartyErrors(data.issuer, "Emetteur", Len(RequiredParty))
    \o PartyErrors(data.recipient, "Destinataire", Len(RequiredParty))
    \o SiretErrors(data.issuer, "Issuer")
    \o SiretErrors(data.recipient, "Recipient")
    \o ItemsErrors(data)
    \o TotalErrors(data)

(***************************************************************************)
(* FacturXGenerator._generate_facturx_xml.  The document is a record of    *)
(* the element texts the builder sets, or Raised when the builder raises.  *)
(***************************************************************************)
Raised == [raised |-> TRUE]

\* The default of data['issuer'].get('siret', '00000000000000').
PlaceholderSiret == [i \in 1..SiretLen |-> "0"]

\* data['issuer'].get('siret', '00000000000000')
SellerLegalId(data) ==
    IF data.issuer.siret = None THEN PlaceholderSiret ELSE data.issuer.siret

\* siret.replace(' ', '')
RemoveSpaces(s) == SelectSeq(s, LAMBDA c : c # " ")

\* str.strip() as int() applies it.
RECURSIVE LStrip(_)
LStrip(s) == IF Len(s) > 0 /\ IsReSpace(s[1]) THEN LStrip(Tail(s)) ELSE s
RECURSIVE RStrip(_)
RStrip(s) ==
    IF Len(s) > 0 /\ IsReSpace(s[Len(s)]) THEN RStrip(SubSeq(s, 1, Len(s) - 1)) ELSE s

\* int(text): surrounding whitespace, an optional sign, decimal digits of
\* any script.  [ok |-> FALSE] stands for ValueError.
IntParse(text) ==
    LET s == RStrip(LStrip(text))
        neg == Len(s) > 0 /\ s[1] = "-"
        d == IF neg THEN Tail(s) ELSE s
    IN  IF Len(d) = 0 \/ \E i \in 1..Len(d) : ~IsReDigit(d[i])
        THEN [ok |-> FALSE, v |-> 0]
        ELSE [ok |-> TRUE,
              v |-> IF neg THEN 0 - DigitsValue(d, Len(d)) ELSE DigitsValue(d, Len(d))]

\* f"{key:02d}" for 0 <= key < 97.
TwoDigits(key) == <<AsciiDigits[(key \div 10) + 1], AsciiDigits[(key % 10) + 1]>>

SirenLen == 9
VatModulus == 97
VatOffset == 12
VatFactor == 3

\* The branch `if not vat_number:`; [ok |-> FALSE] when int(siren) raises.
DerivedVat(siret) ==
    LET siret_clean == RemoveSpaces(siret) IN
    IF Len(siret_clean) >= SirenLen
    THEN LET siren == SubSeq(siret_clean, 1, SirenLen)
             n == IntParse(siren)
             key == (VatOffset + VatFactor * (n.v % VatModulus)) % VatModulus
         IN  IF n.ok
             THEN [ok |-> TRUE, text |-> <<"F", "R">> \o TwoDigits(key) \o siren]
             ELSE [ok |-> FALSE, text |-> <<>>]
    ELSE [ok |-> TRUE, text |-> <<"F", "R", "0", "0">> \o siret_clean]

\* vat_number = data['issuer'].get('vat_number', ''), derived when empty.
SellerTaxId(data) ==
    IF Falsy(data.issuer.vat_number)
    THEN DerivedVat(SellerLegalId(data))
    ELSE [ok |-> TRUE, text |-> data.issuer.vat_number]

\* str(n) of a non-negative integer.
RECURSIVE Str(_)
Str(n) ==
    IF n < 10 THEN <<AsciiDigits[n + 1]>>
    ELSE Append(Str(n \div 10), AsciiDigits[(n % 10) + 1])

\* Variant that numbers the lines from 0.
LineItemZeroBased(item, idx) ==
    [LineID |-> Str(idx - 1),
     Name |-> item.description,
     ChargeAmount |-> Fmt2(item.unit_price),
     BilledQuantity |-> Fmt2(item.quantity),
     RateApplicablePercent |-> Fmt2(item.vat_rate),
     LineTotalAmount |-> Fmt2(item.amount_ht)]

\* One IncludedSupplyChainTradeLineItem; idx comes from enumerate(items, 1).
LineItem(item, idx) ==
    [LineID |-> Str(idx),
     Name |-> item.description,
     ChargeAmount |-> Fmt2(item.unit_price),
     BilledQuantity |-> Fmt2(item.quantity),
     RateApplicablePercent |-> Fmt2(item.vat_rate),
     LineTotalAmount |-> Fmt2(item.amount_ht)]

LineItems(items) == [idx \in 1..Len(items) |-> LineItem(items[idx], idx)]

\* `rate not in vat_rates`: a dict key equal to rate; nan equals no key.
RateIndex(groups, rate) ==
    IF IsNum(rate) /\ \E g \in 1..Len(groups) : groups[g].rate = rate
    THEN CHOOSE g \in 1..Len(groups) : groups[g].rate = rate
    ELSE 0

\* Variant that starts a new entry for every item, grouping nothing.
AddToRateUngrouped(groups, item) ==
    Append(groups, [rate |-> item.vat_rate,
                    base |-> FAdd(F(0), item.amount_ht),
                    tax |-> FAdd(F(0), item.vat_amount)])

\* The body of the grouping loop: the dict after one more item.
AddToRate(groups, item) ==
    LET g == RateIndex(groups, item.vat_rate) IN
    IF g = 0
    THEN Append(groups, [rate |-> item.vat_rate,
                         base |-> FAdd(F(0), item.amount_ht),
                         tax |-> FAdd(F(0), item.vat_amount)])
    ELSE [groups EXCEPT ![g].base = FAdd(@, item.amount_ht),
                        ![g].tax = FAdd(@, item.vat_amount)]

\* The dict vat_rates after the first k items, in insertion order.
RECURSIVE VatRates(_, _)
VatRates(items, k) ==
    IF k = 0 THEN <<>>
    ELSE CHOOSE d \in {AddToRate(prev, items[k]) : prev \in {VatRates(items, k - 1)}} :
             TRUE

\* One ApplicableTradeTax of the settlement.
TaxBlock(group) ==
    [CalculatedAmount |-> Fmt2(group.tax),
     BasisAmount |-> Fmt2(group.base),
     RateApplicablePercent |-> Fmt2(group.rate)]

BlocksOf(groups) == [g \in 1..Len(groups) |-> TaxBlock(groups[g])]

TaxBlocks(items) ==
    CHOOSE b \in {BlocksOf(groups) : groups \in {VatRates(items, Len(items))}} : TRUE

\* Element names the builder always writes.
BuiltElements ==
    {"CrossIndustryInvoice", "ExchangedDocumentContext", "ExchangedDocument",
     "SupplyChainTradeTransaction"}

GenerateFacturxXml(data) ==
    LET tax == SellerTaxId(data) IN
    IF ~tax.ok THEN Raised
    ELSE [raised |-> FALSE,
          ID |-> data.invoice_number,
          DateTimeString |-> SelectSeq(data.date, LAMBDA c : c # "-"),
          lines |-> LineItems(data.items),
          SellerLegalID |-> SellerLegalId(data),
          SellerTaxID |-> tax.text,
          taxes |-> TaxBlocks(data.items),
          LineTotalAmount |-> Fmt2(data.total_ht),
          TaxBasisTotalAmount |-> Fmt2(data.total_ht),
          TaxTotalAmount |-> Fmt2(data.total_vat),
          GrandTotalAmount |-> Fmt2(data.total_ttc),
          DuePayableAmount |-> Fmt2(data.total_ttc),
          elements |-> BuiltElements]

(***************************************************************************)
(* FacturXGenerator._validate_xml.  `parses` is the outcome of              *)
(* etree.fromstring: TRUE, or FALSE for XMLSyntaxError.                    *)
(***************************************************************************)
RequiredElements ==
    {"CrossIndustryInvoice", "ExchangedDocumentContext", "ExchangedDocument",
     "SupplyChainTradeTransaction"}

ValidateXml(doc, parses) == parses /\ RequiredElements \subseteq doc.elements

(***************************************************************************)
(* generate_invoice (src/app.py): the record built from the form.          *)
(***************************************************************************)
\* One pass of the loop over the rows: the item of a row.
RowItem(row) ==
    LET quantity == ParseFloat(row.quantity)
        unit_price == ParseFloat(row.unit_price)
        vat_rate_percent == ParseFloat(row.vat_rate)
        vat_rate_decimal == FDiv100(vat_rate_percent)
        amount_ht == FMul(quantity, unit_price)
        vat_amount == FMul(amount_ht, vat_rate_decimal)
        amount_ttc == FAdd(amount_ht, vat_amount)
    IN  [description |-> row.description,
         quantity |-> quantity,
         unit_price |-> unit_price,
         amount_ht |-> amount_ht,
         vat_rate |-> vat_rate_percent,
         vat_amount |-> vat_amount,
         amount_ttc |-> amount_ttc]

\* Variant without the `if descriptions[i]:` filter.
KeptRowsUnfiltered(rows) == rows

\* `if descriptions[i]:` keeps the rows with a description.
KeptRows(rows) == SelectSeq(rows, LAMBDA r : r.description # <<>>)

\* float() raises ValueError on one of the kept rows.
RowsRaise(rows) ==
    \E i \in 1..Len(KeptRows(rows)) :
        LET r == KeptRows(rows)[i] IN
        \/ ParseFloat(r.quantity).k = "bad"
        \/ ParseFloat(r.unit_price).k = "bad"
        \/ ParseFloat(r.vat_rate).k = "bad"

FormItems(rows) ==
    LET kept == KeptRows(rows) IN [i \in 1..Len(kept) |-> RowItem(kept[i])]

Column(items, f) == [i \in 1..Len(items) |-> items[i][f]]

\* sum(item[f] for item in items)
Total(items, f) == FSum(Column(items, f), Len(items))

\* invoice_data once the totals are stored by invoice_data.update(...).
WithTotals(form, items) ==
    [date |-> form.date,
     invoice_number |-> form.invoice_number,
     issuer |-> form.issuer,
     recipient |-> form.recipient,
     items |-> items,
     total_ht |-> Total(items, "amount_ht"),
     total_vat |-> Total(items, "vat_amount"),
     total_ttc |-> Total(items, "amount_ttc")]

InvoiceData(form) ==
    CHOOSE d \in {WithTotals(form, items) : items \in {FormItems(form.rows)}} : TRUE

(***************************************************************************)
(* Inputs.                                                                 *)
(***************************************************************************)
MaxRows == 2

ValidDate == <<"2", "0", "2", "4", "-", "0", "2", "-", "2", "9">>
FormDates == {<<>>, ValidDate, <<"2", "0", "2", "3", "-", "0", "2", "-", "2", "9">>}
FormNumbers == {<<>>, <<"F", "1">>}

SiretPlain == <<"3", "9", "1", "1", "2", "3", "5", "6", "5", "0", "0", "0", "1", "6">>
SiretSpaced == <<"3", "9", "1", " ", "1", "2", "3", " ", "5", "6", "5", " ", "0", "0", "0", "1", "6">>
SiretHyphened == <<"3", "9", "1", "-", "1", "2", "3", "-", "5", "6", "5", "-", "0", "0", "0", "1", "6">>
SiretLateHyphen == <<"3", "9", "1", "1", "2", "3", "5", "6", "5", "-", "0", "0", "0", "1", "6">>
SiretTabbed == <<"3", "9", "1", "\t", "1", "2", "3", "5", "6", "5", "0", "0", "0", "1", "6">>
SiretBadSum == <<"3", "9", "1", "1", "2", "3", "5", "6", "5", "0", "0", "0", "1", "9">>
SiretShort == <<"3", "9", "1", "1", "2", "3", "5", "6", "5", "0", "0", "0", "1">>
SiretLetter == <<"A", "9", "1", "1", "2", "3", "5", "6", "5", "0", "0", "0", "1", "6">>
SiretArabic == [i \in 1..SiretLen |-> ArabicZero]
SiretArabicBadSum == [i \in 1..SiretLen |-> IF i = 1 THEN ArabicThree ELSE ArabicZero]

FormSirets ==
    {<<>>, SiretPlain, SiretSpaced, SiretHyphened, SiretLateHyphen, SiretTabbed,
     SiretBadSum, SiretShort, SiretLetter, SiretArabic, SiretArabicBadSum}

ExplicitVat == <<"F", "R", "2", "2", "3", "9", "1", "1", "2", "3", "5", "6", "5">>

Party(name, city, siret, vat) ==
    [name |-> name, address |-> <<"1", " ", "r", "u", "e">>,
     postal_code |-> <<"7", "5", "0", "0", "1">>, city |-> city,
     siret |-> siret, vat_number |-> vat]

FormIssuers ==
    {Party(<<"S">>, <<"P">>, s, v) : s \in FormSirets, v \in {<<>>, ExplicitVat}}
    \cup {Party(<<>>, <<"P">>, <<>>, <<>>)}

FormRecipients ==
    {Party(<<"B">>, <<"L">>, <<>>, <<>>), Party(<<"B">>, <<>>, SiretBadSum, <<>>)}

Row(d, q, p, r) == [description |-> d, quantity |-> q, unit_price |-> p, vat_rate |-> r]

FormRowKinds ==
    {Row(<<"A">>, <<"2">>, <<"9", ".", "9", "9">>, <<"2", "0">>),
     Row(<<"C">>, <<"3">>, <<"1", ".", "1", "0">>, <<"1", "0">>),
     Row(<<>>, <<"1">>, <<"1", ".", "0", "0">>, <<"2", "0">>),
     Row(<<"D">>, <<"n", "a", "n">>, <<"1", ".", "0", "0">>, <<"2", "0">>),
     Row(<<"E">>, <<"0">>, <<"-", "1">>, <<"1", "5", "0">>),
     Row(<<"G">>, <<"a", "b", "c">>, <<"1">>, <<"2", "0">>)}

FormRows == UNION {[1..n -> FormRowKinds] : n \in 0..MaxRows}

Forms ==
    [date : FormDates, invoice_number : FormNumbers, issuer : FormIssuers,
     recipient : FormRecipients, rows : FormRows]

\* Records handed to generate_facturx by a caller other than the form
\* handler: keys may be missing (None) and totals are the caller's.
BaseRows ==
    <<Row(<<"A">>, <<"2">>, <<"9", ".", "9", "9">>, <<"2", "0">>),
      Row(<<"C">>, <<"3">>, <<"1", ".", "1", "0">>, <<"1", "0">>)>>

BaseData ==
    InvoiceData([date |-> ValidDate, invoice_number |-> <<"F", "1">>,
                 issuer |-> Party(<<"S">>, <<"P">>, SiretPlain, <<>>),
                 recipient |-> Party(<<"B">>, <<"L">>, <<>>, <<>>),
                 rows |-> BaseRows])

CallerTotals ==
    {[ht |-> BaseData.total_ht, vat |-> BaseData.total_vat, ttc |-> BaseData.total_ttc],
     [ht |-> F(10 * Scale), vat |-> F(5 * Scale), ttc |-> F(100 * Scale)],
     [ht |-> BaseData.total_ht, vat |-> BaseData.total_vat, ttc |-> Bad]}

CallerItems ==
    {BaseData.items,
     [BaseData.items EXCEPT ![1].amount_ht = F(Scale), ![1].vat_amount = F(7 * Scale)]}

CallerRecords ==
    {[BaseData EXCEPT !.date = d, !.invoice_number = n, !.issuer.siret = s,
                      !.issuer.vat_number = v, !.items = it,
                      !.total_ht = tot.ht, !.total_vat = tot.vat, !.total_ttc = tot.ttc] :
        d \in {None, ValidDate}, n \in {None, <<"F", "1">>},
        s \in {None, SiretPlain}, v \in {None, <<>>},
        it \in CallerItems, tot \in CallerTotals}

(***************************************************************************)
(* State.                                                                  *)
(***************************************************************************)
VARIABLES
    pc,        \* "idle", the step generate_facturx is about to run, "returned",
               \* "failed" (generate_facturx raised), "form_error" (float() raised)
    caller,    \* "none", "form" (generate_invoice) or "direct"
    form,      \* the submitted form (app path)
    data,      \* invoice_data
    errors,    \* the messages of the raised ValidationError
    xml,       \* xml_content
    xml_valid, \* "unset", or the result of _validate_xml: "true" / "false"
    temp_pdf,  \* the file at temp_pdf: "absent", "stale" (older run) or "pdf"
    output,    \* the file at output_path: "absent", "stale", "pdf" or "facturx"
    raised     \* the exception that left generate_invoice's try or generate_facturx

vars == <<pc, caller, form, data, errors, xml, xml_valid, temp_pdf, output, raised>>

NoForm ==
    [date |-> <<>>, invoice_number |-> <<>>,
     issuer |-> Party(<<>>, <<>>, <<>>, <<>>),
     recipient |-> Party(<<>>, <<>>, <<>>, <<>>), rows |-> <<>>]

NoXml == [raised |-> FALSE, elements |-> {}]

Init ==
    /\ pc = "idle"
    /\ caller = "none"
    /\ form = NoForm
    /\ data = InvoiceData(NoForm)
    /\ errors = <<>>
    /\ xml = NoXml
    /\ xml_valid = "unset"
    /\ temp_pdf \in {"absent", "stale"}
    /\ output = temp_pdf
    /\ raised = "none"

(***************************************************************************)
(* src/app.py, generate_invoice: the record is built and handed to         *)
(* generate_facturx, or float() raises and the outer handler reports it.   *)
(***************************************************************************)
GenerateInvoice ==
    /\ pc = "idle"
    /\ \E f \in Forms :
        /\ form' = f
        /\ caller' = "form"
        /\ IF RowsRaise(f.rows)
           THEN /\ pc' = "form_error"
                /\ raised' = "FormValueError"
                /\ data' = data
           ELSE /\ pc' = "validate"
                /\ raised' = raised
                /\ data' = InvoiceData(f)
    /\ UNCHANGED <<errors, xml, xml_valid, temp_pdf, output>>

\* generate_facturx called with a record built elsewhere.
CallGenerateFacturx ==
    /\ pc = "idle"
    /\ \E d \in CallerRecords : data' = d
    /\ caller' = "direct"
    /\ pc' = "validate"
    /\ UNCHANGED <<form, errors, xml, xml_valid, temp_pdf, output, raised>>

(***************************************************************************)
(* FacturXGenerator.generate_facturx, step by step.                        *)
(***************************************************************************)
\* Variant that swallows the ValidationError and goes on.
ValidateSwallowed ==
    /\ pc = "validate"
    /\ errors' = ValidationErrors(data)
    /\ pc' = "pdf"
    /\ UNCHANGED <<caller, form, data, xml, xml_valid, temp_pdf, output, raised>>

\* Etape 1: validate_invoice_data; ValidationError is re-raised.
Validate ==
    /\ pc = "validate"
    /\ \E found \in {ValidationErrors(data)} :
        /\ errors' = found
        /\ IF found # <<>>
           THEN pc' = "failed" /\ raised' = "ValidationError"
           ELSE pc' = "pdf" /\ raised' = raised
    /\ UNCHANGED <<caller, form, data, xml, xml_valid, temp_pdf, output>>

\* Etape 2: _generate_pdf writes temp_pdf, or the canvas cannot be saved.
GeneratePdf ==
    /\ pc = "pdf"
    /\ \E saved \in BOOLEAN :
        IF saved
        THEN temp_pdf' = "pdf" /\ pc' = "xml" /\ raised' = raised
        ELSE temp_pdf' = temp_pdf /\ pc' = "failed" /\ raised' = "OSError"
    /\ UNCHANGED <<caller, form, data, errors, xml, xml_valid, output>>

\* Etape 3: _generate_facturx_xml.
GenerateXml ==
    /\ pc = "xml"
    /\ \E doc \in {GenerateFacturxXml(data)} :
        IF doc.raised
        THEN xml' = xml /\ pc' = "failed" /\ raised' = "ValueError"
        ELSE xml' = doc /\ pc' = "check" /\ raised' = raised
    /\ UNCHANGED <<caller, form, data, errors, xml_valid, temp_pdf, output>>

\* Variant in which a false result raises instead of warning.
CheckXmlBlocking ==
    /\ pc = "check"
    /\ \E parses \in BOOLEAN :
        /\ xml_valid' = IF ValidateXml(xml, parses) THEN "true" ELSE "false"
        /\ IF ValidateXml(xml, parses)
           THEN pc' = "embed" /\ raised' = raised
           ELSE pc' = "failed" /\ raised' = "XmlInvalid"
    /\ UNCHANGED <<caller, form, data, errors, xml, temp_pdf, output>>

\* Etape 4: _validate_xml; both branches only print.
CheckXml ==
    /\ pc = "check"
    /\ \E parses \in BOOLEAN :
        xml_valid' = IF ValidateXml(xml, parses) THEN "true" ELSE "false"
    /\ pc' = "embed"
    /\ UNCHANGED <<caller, form, data, errors, xml, temp_pdf, output, raised>>

\* Variant whose failure branch deletes temp_pdf instead of renaming it.
EmbedDiscarding ==
    /\ pc = "embed"
    /\ \E embedded \in BOOLEAN :
        IF embedded
        THEN /\ output' = "facturx"
             /\ temp_pdf' = "absent"
             /\ pc' = "returned"
             /\ raised' = raised
        ELSE /\ output' = output
             /\ temp_pdf' = "absent"
             /\ pc' = "failed"
             /\ raised' = "EmbedError"
    /\ UNCHANGED <<caller, form, data, errors, xml, xml_valid>>

\* Etape 5: generate_from_file, then the removal of temp_pdf; on any
\* exception temp_pdf is renamed to output_path and the exception re-raised.
Embed ==
    /\ pc = "embed"
    /\ \E embedded \in BOOLEAN :
        IF embedded
        THEN /\ output' = "facturx"
             /\ temp_pdf' = "absent"
             /\ pc' = "returned"
             /\ raised' = raised
        ELSE /\ output' = IF temp_pdf # "absent" THEN temp_pdf ELSE output
             /\ temp_pdf' = "absent"
             /\ pc' = "failed"
             /\ raised' = "EmbedError"
    /\ UNCHANGED <<caller, form, data, errors, xml, xml_valid>>

Next ==
    \/ GenerateInvoice
    \/ CallGenerateFacturx
    \/ Validate
    \/ GeneratePdf
    \/ GenerateXml
    \/ CheckXml
    \/ Embed

Spec == Init /\ [][Next]_vars

(***************************************************************************)
(* Properties.                                                             *)
(***************************************************************************)
Range(s) == {s[i] : i \in 1..Len(s)}

\* validate_invoice_data has run on data.
Validated == pc \notin {"idle", "validate", "form_error"}

\* data with its date and invoice number replaced by valid ones.
WithHeader(d) == [d EXCEPT !.date = ValidDate, !.invoice_number = <<"F", "1">>]

\* C1: validate_invoice_data reports every violated rule in the one error it
\* raises (a rule's message is in the list exactly when the rule is violated),
\* and a record that is valid except that both date and invoice_number are
\* missing or empty gets exactly the two "est obligatoire" messages.
C1_AllViolationsReported ==
    Validated =>
        /\ Falsy(data.date) <=> MsgDateRequired \in Range(errors)
        /\ Falsy(data.invoice_number) <=> MsgNumberRequired \in Range(errors)
        /\ \A k \in 1..Len(RequiredParty) :
            /\ Falsy(data.issuer[RequiredParty[k]])
                 <=> PartyMsg("Emetteur", "est obligatoire", RequiredParty[k])
                         \in Range(errors)
            /\ Falsy(data.recipient[RequiredParty[k]])
                 <=> PartyMsg("Destinataire", "est obligatoire", RequiredParty[k])
                         \in Range(errors)
        /\ Len(data.items) = 0 <=> MsgNoItem \in Range(errors)
        /\ \A i \in 1..Len(data.items) :
             FLe(data.items[i].quantity, 0)
                 <=> ItemMsg(i, "Quantite doit etre superieure a 0") \in Range(errors)
        /\ FLe(data.total_ttc, 0) <=> MsgTotalPositive \in Range(errors)
        /\ (Falsy(data.date) /\ Falsy(data.invoice_number)
              /\ ValidationErrors(WithHeader(data)) = <<>>)
             => errors = <<MsgDateRequired, MsgNumberRequired>>

C1_Witness ==
    /\ pc = "failed"
    /\ raised = "ValidationError"
    /\ Falsy(data.date)
    /\ Falsy(data.invoice_number)
    /\ Len(data.items) > 0
    /\ Len(errors) = 2

\* C2: in generate_facturx a validation that reports a violation raises the
\* ValidationError to the caller, and from then on no step runs: no PDF is
\* rendered, no XML built or checked, nothing embedded, and the files at the
\* temporary and the output path stay as they were.
C2_ValidationAborts ==
    [][/\ (pc = "validate" /\ ValidationErrors(data) # <<>>)
            => /\ pc' = "failed"
               /\ raised' = "ValidationError"
               /\ errors' # <<>>
               /\ UNCHANGED <<xml, xml_valid, temp_pdf, output>>
       /\ errors # <<>> => UNCHANGED vars]_vars

C2_Witness ==
    /\ pc = "failed"
    /\ raised = "ValidationError"
    /\ errors # <<>>
    /\ xml = NoXml
    /\ temp_pdf = "stale"
    /\ output = "stale"

\* The checksum as the specification words it: a doubled digit above 9 is
\* reduced by 9.
RECURSIVE StatedSum(_, _)
StatedSum(s, k) ==
    IF k = 0 THEN 0
    ELSE LET n == DigitValue(s[k]) IN
         StatedSum(s, k - 1)
         + (IF (k - 1) % 2 = 0 THEN n ELSE IF 2 * n > 9 THEN 2 * n - 9 ELSE 2 * n)

StatedSiretValid(siret) ==
    \E s \in {StripSpaceHyphen(siret)} :
        /\ Len(s) = SiretLen
        /\ \A i \in 1..Len(s) : IsAsciiDigit(s[i])
        /\ StatedSum(s, Len(s)) % 10 = 0

\* C3: _validate_siret returns true exactly for the inputs that, stripped of
\* whitespace and hyphens, are 14 ASCII digits whose position-weighted sum is
\* divisible by 10; it returns false for every other input.
C3_SiretIffStated ==
    (pc = "validate" /\ data.issuer.siret # None)
        => (ValidateSiret(data.issuer.siret) <=> StatedSiretValid(data.issuer.siret))

\* "FR" + key + SIREN computed from the SIRET stripped of whitespace and hyphens.
StatedVat(siret) ==
    CHOOSE v \in {<<"F", "R">>
                  \o TwoDigits((VatOffset + VatFactor * (DigitsValue(siren, SirenLen) % VatModulus))
                               % VatModulus)
                  \o siren : siren \in {SubSeq(StripSpaceHyphen(siret), 1, SirenLen)}} : TRUE

\* The XML builder has run (it returned or raised).
XmlStepDone ==
    \/ pc \in {"check", "embed", "returned"}
    \/ pc = "failed" /\ raised \in {"ValueError", "EmbedError"}

\* C4: with no explicit issuer VAT id, for every issuer SIRET the validator
\* accepted, the builder completes and the seller tax registration id is
\* "FR" + key + SIREN of the stripped SIRET.
C4_DerivedVatForAcceptedSiret ==
    (XmlStepDone /\ Falsy(data.issuer.vat_number) /\ ~Falsy(data.issuer.siret))
        => /\ raised # "ValueError"
           /\ xml.SellerTaxID = StatedVat(data.issuer.siret)

\* The builder returned a document.
XmlBuilt == xml # NoXml

\* |a - b| <= cents, for two emitted two-decimal amounts (in hundredths); "nan"
\* is within tolerance of nothing.
WithinCents(a, b, cents) ==
    IsNum(a) /\ IsNum(b) /\ a.v - b.v <= cents /\ b.v - a.v <= cents

\* C5: for every accepted record the emitted monetary summation satisfies
\* GrandTotalAmount = TaxBasisTotalAmount + TaxTotalAmount within 0.01, with
\* LineTotalAmount = TaxBasisTotalAmount and DuePayableAmount = GrandTotalAmount.
C5_GrandTotalIsBasisPlusTax ==
    XmlBuilt =>
        /\ WithinCents(xml.GrandTotalAmount,
                       FAdd(xml.TaxBasisTotalAmount, xml.TaxTotalAmount), 1)
        /\ WithinCents(xml.LineTotalAmount, xml.TaxBasisTotalAmount, 0)
        /\ WithinCents(xml.DuePayableAmount, xml.GrandTotalAmount, 0)

\* a == b on floats.
FEq(a, b) == IsNum(a) /\ IsNum(b) /\ a.v = b.v

\* abs(a - b) <= 0.01 on floats.
FClose(a, b) ==
    IsNum(a) /\ IsNum(b) /\ a.v - b.v <= Scale \div 100 /\ b.v - a.v <= Scale \div 100

Accepted == Validated /\ errors = <<>>

\* C6: every record the validator accepted has total_ttc == total_ht + total_vat.
C6_TotalsAddUp ==
    Accepted => FEq(data.total_ttc, FAdd(data.total_ht, data.total_vat))

\* C7: every item of a record the validator accepted has
\* amount_ht == quantity * unit_price, vat_amount == amount_ht * vat_rate / 100
\* and amount_ttc == amount_ht + vat_amount, each within 0.01.
C7_ItemAmountsDerived ==
    Accepted =>
        \A i \in 1..Len(data.items) : \E item \in {data.items[i]} :
            /\ FClose(item.amount_ht, FMul(item.quantity, item.unit_price))
            /\ FClose(item.vat_amount, FDiv100(FMul(item.amount_ht, item.vat_rate)))
            /\ FClose(item.amount_ttc, FAdd(item.amount_ht, item.vat_amount))

\* The vat_rate values occurring among the items.
RatesOf(items) == {items[i].vat_rate : i \in 1..Len(items)}

\* The items carrying one rate.
ItemsAtRate(items, rate) == SelectSeq(items, LAMBDA item : item.vat_rate = rate)

\* The tax-summary block the claim describes for one rate.
StatedBlock(items, rate) ==
    CHOOSE b \in {[CalculatedAmount |-> Fmt2(Total(at, "vat_amount")),
                   BasisAmount |-> Fmt2(Total(at, "amount_ht")),
                   RateApplicablePercent |-> Fmt2(rate)] :
                  at \in {ItemsAtRate(items, rate)}} : TRUE

OnlyEmptyRows ==
    /\ caller = "form"
    /\ Validated
    /\ Len(form.rows) > 0
    /\ \A i \in 1..Len(form.rows) : form.rows[i].description = <<>>
    /\ ValidationErrors([data EXCEPT !.items = BaseData.items,
                                     !.total_ttc = BaseData.total_ttc]) = <<>>

\* C9 as stated: when every submitted row has an empty description and the
\* rest is valid, the error carries the "at least one item" message alone.
C9_OnlyNoItemMessage ==
    OnlyEmptyRows => errors = <<MsgNoItem>>

\* C9 as the code has it: the dropped rows leave total_ttc = sum([]) = 0, so
\* the error carries exactly two messages, "at least one item" followed by
\* "total must be greater than 0".
C9_NoItemAndTotalMessages ==
    OnlyEmptyRows => errors = <<MsgNoItem, MsgTotalPositive>>

C9_Witness ==
    /\ OnlyEmptyRows
    /\ Len(form.rows) = 2
    /\ pc = "failed"
    /\ raised = "ValidationError"
    /\ Len(errors) = 2

\* C10: the structural check only warns.  Whatever _validate_xml returns, the
\* step after it is the embedding, with the same XML and nothing raised; a
\* false result leaves the embedding enabled and never ends generate_facturx.
C10_CheckOnlyWarns ==
    /\ [][pc = "check" => (pc' = "embed" /\ xml' = xml /\ raised' = "none")]_vars
    /\ [](xml_valid = "false" =>
            /\ pc \in {"embed", "returned", "failed"}
            /\ pc = "embed" => ENABLED Embed
            /\ pc = "failed" => raised = "EmbedError")

\* A document was produced although the check returned false.
C10_Witness ==
    /\ xml_valid = "false"
    /\ pc = "returned"
    /\ output = "facturx"

\* What generate_invoice answers once generate_facturx has returned or raised:
\* send_file, the flash of the inner ValidationError handler, or the flash of
\* the outer Exception handler.
Response ==
    CASE caller # "form" -> "none"
      [] pc = "returned" -> "send_file"
      [] pc = "failed" /\ raised = "ValidationError" -> "flash_validation"
      [] pc \in {"failed", "form_error"} -> "flash_error"
      [] OTHER -> "pending"

\* C11: when the embedding fails after the PDF was rendered, the rendered PDF
\* is moved to the output path and the exception is raised to the caller (the
\* form handler answers with an error flash); the rendered PDF is not lost.
C11_EmbedFailureKeepsPdf ==
    /\ [][(pc = "embed" /\ pc' # "returned") =>
            /\ pc' = "failed"
            /\ raised' = "EmbedError"
            /\ temp_pdf = "pdf"
            /\ output' = "pdf"]_vars
    /\ [](raised = "EmbedError" =>
            /\ pc = "failed"
            /\ output = "pdf"
            /\ caller = "form" => Response = "flash_error")

\* A form request whose embedding failed and left the plain PDF at the output.
C11_Witness ==
    /\ caller = "form"
    /\ raised = "EmbedError"
    /\ output = "pdf"
    /\ Response = "flash_error"

\* generate_facturx has returned or raised after the validation succeeded.
ExitedAfterValidation ==
    \/ pc = "returned"
    \/ pc = "failed" /\ raised # "ValidationError"

\* C12: once generate_facturx has returned or raised after a successful
\* validation, whichever step failed, the temporary PDF it rendered is no
\* longer at the temporary path.
C12_TempPdfCleanedUp == ExitedAfterValidation => temp_pdf # "pdf"

\* C13: the seller's legal-organization ID of the built XML is the issuer
\* SIRET when one is provided, and the 14-zero placeholder when the SIRET is
\* missing or the empty string.
C13_LegalIdOrPlaceholder ==
    XmlBuilt =>
        xml.SellerLegalID =
            IF Falsy(data.issuer.siret) THEN PlaceholderSiret ELSE data.issuer.siret

\* The decimal numeral of k, for the line counts of the model.
Numeral(k) == IF k = 1 THEN <<"1">> ELSE IF k = 2 THEN <<"2">> ELSE <<"3">>

\* C14: the built XML has one line-item block per item, in item order; the
\* k-th block carries LineID k (1, 2, ..., n, no gap, no repetition) and the
\* product name and two-decimal amounts of the k-th item.
C14_LineItemsInOrder ==
    XmlBuilt =>
        /\ Len(xml.lines) = Len(data.items)
        /\ \A k \in 1..Len(data.items) :
            /\ xml.lines[k].LineID = Numeral(k)
            /\ xml.lines[k].Name = data.items[k].description
            /\ xml.lines[k].ChargeAmount = Fmt2(data.items[k].unit_price)
            /\ xml.lines[k].BilledQuantity = Fmt2(data.items[k].quantity)
            /\ xml.lines[k].RateApplicablePercent = Fmt2(data.items[k].vat_rate)
            /\ xml.lines[k].LineTotalAmount = Fmt2(data.items[k].amount_ht)
        /\ \A j, k \in 1..Len(xml.lines) :
            xml.lines[j].LineID = xml.lines[k].LineID => j = k

\* An XML built from two items with different names.
C14_Witness ==
    /\ XmlBuilt
    /\ Len(xml.lines) = 2
    /\ xml.lines[1].LineID = <<"1">>
    /\ xml.lines[2].LineID = <<"2">>
    /\ xml.lines[1].Name # xml.lines[2].Name

====
